---- MODULE Spec2Model ----
(***************************************************************************)
(* Model of the drawing surface of src/src/App.tsx: the React state of     *)
(* the App component, its event handlers, and the way the rendered DOM     *)
(* routes pointer events to them (a shape's handlers run first, then the   *)
(* event bubbles to the canvas).  One action per DOM event; each handler   *)
(* is an operator translated from its code.                                *)
(***************************************************************************)
EXTENDS Integers, Sequences, FiniteSets, TLC

(***************************************************************************)
(* Bounds of the model.                                                    *)
(***************************************************************************)
MaxShapes == 2      \* handleMouseDown is not taken once this many shapes exist
MaxTime == 2        \* Date.now() ranges over 1..MaxTime
MaxEvents == 5      \* number of events dispatched in a behaviour

(***************************************************************************)
(* Program constants.                                                      *)
(***************************************************************************)
CANVAS_WIDTH == 800
CANVAS_HEIGHT == 600

defaultAppearance ==
  [color |-> "#000000", background |-> "#ffffff", lineStyle |-> "solid", lineWidth |-> 2]

ShapeTypes == {"rectangle", "circle", "line"}

\* JavaScript null as the value of dragId
null == "null"

(***************************************************************************)
(* Inputs.  Pointer coordinates are e.clientX - rect.left and              *)
(* e.clientY - rect.top.  A pointer-down whose target is the canvas is a   *)
(* point of the canvas; pointer-move coordinates are arbitrary.            *)
(***************************************************************************)
DownPoints == {<<300, 300>>}
MovePoints == {<<260, 260>>, <<-100, -50>>, <<900, 700>>}
\* e.nativeEvent.offsetX, offsetY of a pointer-down on a shape
Offsets == {<<0, 0>>, <<5, 3>>}
\* the appearance controls that are operated, and the values they are set to
AppearanceValues == [color |-> {"#ff0000"}, lineWidth |-> {5}]
AppearanceFields == DOMAIN AppearanceValues

VARIABLES
  elements,      \* useState<DrawingElement[]>([])
  currentShape,  \* useState<ShapeType>('rectangle')
  drawing,       \* useState(false)
  appearance,    \* useState(defaultAppearance)
  dragId,        \* useState<string | null>(null)
  offset,        \* useState({x: 0, y: 0})
  storage,       \* localStorage item 'drawing'
  now,           \* the last value Date.now() returned
  saved,         \* history: the collection handleSave last serialized
  startedId,     \* history: the id of the shape the last start appended
  lastOp,        \* history: the handlers the last event ran
  nEvents        \* history: the number of events dispatched so far

vars ==
  <<elements, currentShape, drawing, appearance, dragId, offset, storage, now,
    saved, startedId, lastOp, nEvents>>

Min(a, b) == IF a <= b THEN a ELSE b
Max(a, b) == IF a >= b THEN a ELSE b

\* const clamp = (val, min, max) => Math.max(min, Math.min(max, val))
clamp(val, min, max) == Max(min, Min(max, val))

\* el.x2 !== undefined && el.y2 !== undefined
hasFarEnd(el) == "x2" \in DOMAIN el /\ "y2" \in DOMAIN el

(***************************************************************************)
(* handleMouseDown, lines 43-74.                                           *)
(***************************************************************************)
\* as newElement, but the new shape is the selected one
newElement_selected(t, x, y) ==
  LET base == [id |-> ToString(t), type |-> currentShape, x |-> x, y |-> y,
               width |-> 0, height |-> 0,
               color |-> appearance.color, background |-> appearance.background,
               lineStyle |-> appearance.lineStyle, lineWidth |-> appearance.lineWidth,
               selected |-> TRUE]
  IN  IF currentShape = "line"
      THEN [k \in DOMAIN base \cup {"x2", "y2"} |->
              IF k = "x2" THEN x ELSE IF k = "y2" THEN y ELSE base[k]]
      ELSE base

\* lines 48-72: the element a pointer-down at (x, y) creates at time t
newElement(t, x, y) ==
  IF currentShape = "line"
  THEN [id |-> ToString(t), type |-> "line", x |-> x, y |-> y, x2 |-> x, y2 |-> y,
        width |-> 0, height |-> 0,
        color |-> appearance.color, background |-> appearance.background,
        lineStyle |-> appearance.lineStyle, lineWidth |-> appearance.lineWidth,
        selected |-> FALSE]
  ELSE [id |-> ToString(t), type |-> currentShape, x |-> x, y |-> y,
        width |-> 0, height |-> 0,
        color |-> appearance.color, background |-> appearance.background,
        lineStyle |-> appearance.lineStyle, lineWidth |-> appearance.lineWidth,
        selected |-> FALSE]

\* as handleMouseDown, without the early return of line 44
handleMouseDown_anyTarget(targetIsCanvas, x, y) ==
  \E t \in now..MaxTime :
    /\ now' = t
    /\ elements' = Append(elements, newElement(t, x, y))
    /\ drawing' = TRUE

\* t is what Date.now() returns: a clock that does not run backwards
handleMouseDown(targetIsCanvas, x, y) ==
  IF ~targetIsCanvas
  THEN UNCHANGED <<elements, drawing, now>>
  ELSE \E t \in now..MaxTime :
         /\ now' = t
         /\ elements' = Append(elements, newElement(t, x, y))
         /\ drawing' = TRUE

(***************************************************************************)
(* handleMouseMove, lines 80-113: the collection after the update.         *)
(***************************************************************************)
replaceLast(prev, el) == [prev EXCEPT ![Len(prev)] = el]

\* as circleExtent, but an extent is never negative
circleExtent_nonNegative(anchor, far, dim) ==
  IF far < anchor THEN 0 ELSE Min(far, dim) - anchor

\* lines 97-104, one axis of a circle
circleExtent(anchor, far, dim) ==
  LET e0 == far - anchor
      e1 == IF anchor + e0 > dim THEN dim - anchor ELSE e0
  IN  IF anchor + e1 < 0 THEN -anchor ELSE e1

\* lines 82-112: the pointer is clamped and the last element is resized
updateLast(prev, ex, ey) ==
  LET x == clamp(ex, 0, CANVAS_WIDTH)
      y == clamp(ey, 0, CANVAS_HEIGHT)
  IN  IF Len(prev) = 0 THEN prev
      ELSE LET last == prev[Len(prev)] IN
        IF last.type = "line"
        THEN replaceLast(prev,
               [k \in DOMAIN last \cup {"x2", "y2"} |->
                  IF k = "x2" THEN clamp(x, 0, CANVAS_WIDTH)
                  ELSE IF k = "y2" THEN clamp(y, 0, CANVAS_HEIGHT)
                  ELSE last[k]])
        ELSE IF last.type = "circle"
        THEN replaceLast(prev,
               [last EXCEPT !.width = circleExtent(last.x, x, CANVAS_WIDTH),
                            !.height = circleExtent(last.y, y, CANVAS_HEIGHT)])
        ELSE replaceLast(prev,
               [last EXCEPT !.width = clamp(x - last.x, -last.x, CANVAS_WIDTH - last.x),
                            !.height = clamp(y - last.y, -last.y, CANVAS_HEIGHT - last.y)])

\* as handleMouseMove, without the early return of line 81
handleMouseMove_noGuard(prev, ex, ey) ==
  updateLast(prev, ex, ey)

handleMouseMove(prev, ex, ey) ==
  IF ~drawing THEN prev
  ELSE updateLast(prev, ex, ey)

(***************************************************************************)
(* handleSelect, lines 121-123.                                            *)
(***************************************************************************)
\* as handleSelect, but the selected shapes are also raised to the top
handleSelect_toFront(prev, id) ==
  LET marked == [i \in 1..Len(prev) |-> [prev[i] EXCEPT !.selected = (prev[i].id = id)]]
  IN  SelectSeq(marked, LAMBDA el : ~el.selected) \o SelectSeq(marked, LAMBDA el : el.selected)

handleSelect(prev, id) ==
  [i \in 1..Len(prev) |-> [prev[i] EXCEPT !.selected = (prev[i].id = id)]]

(***************************************************************************)
(* handleDragMove, lines 134-196: the collection after the drag move.      *)
(***************************************************************************)
\* as dragOrigin, without line 154 / 160: a negative extent is not kept
\* from crossing the near edge
dragOrigin_noFloor(c, e, dim) ==
  IF e >= 0 THEN clamp(c, 0, dim - e) ELSE clamp(c, 0, dim)

\* as dragOrigin, clamping the origin alone as for a line
dragOrigin_ignoreExtent(c, e, dim) ==
  clamp(c, 0, dim)

\* lines 150-155 and 156-161: one axis of a rectangle or circle
dragOrigin(c, e, dim) ==
  IF e >= 0 THEN clamp(c, 0, dim - e)
  ELSE LET n == clamp(c, 0, dim) IN IF n + e < 0 THEN -e ELSE n

\* as dragLineAxis, but the far end is moved by the pointer's raw delta
\* instead of the clamped anchor's
dragLineAxis_rawDelta(c, a, b, dim) ==
  <<clamp(c, 0, dim), clamp(b + (c - a), 0, dim)>>

\* lines 163-164 and 168-187: one axis of a line; <<anchor, far end>>
dragLineAxis(c, a, b, dim) ==
  LET n == clamp(c, 0, dim)
      d == n - a
      n2 == clamp(b + d, 0, dim)
  IN  IF n2 < 0 THEN <<clamp(n + (0 - (b + d)), 0, dim), 0>>
      ELSE IF n2 > dim THEN <<clamp(n + (dim - (b + d)), 0, dim), dim>>
      ELSE <<n, n2>>

\* as dragElement, but a rectangle or circle is cut to fit instead of
\* being held back
dragElement_resize(el, x, y) ==
  IF el.type # "line"
  THEN LET nx == clamp(x, 0, CANVAS_WIDTH)
           ny == clamp(y, 0, CANVAS_HEIGHT)
       IN  [el EXCEPT !.x = nx, !.y = ny,
                      !.width = clamp(el.width, -nx, CANVAS_WIDTH - nx),
                      !.height = clamp(el.height, -ny, CANVAS_HEIGHT - ny)]
  ELSE [el EXCEPT !.x = clamp(x, 0, CANVAS_WIDTH), !.y = clamp(y, 0, CANVAS_HEIGHT)]

\* lines 141-194: the drag target after the move
dragElement(el, x, y) ==
  IF el.type # "line"
  THEN [el EXCEPT !.x = dragOrigin(x, el.width, CANVAS_WIDTH),
                  !.y = dragOrigin(y, el.height, CANVAS_HEIGHT)]
  ELSE IF hasFarEnd(el)
  THEN LET ax == dragLineAxis(x, el.x, el.x2, CANVAS_WIDTH)
           ay == dragLineAxis(y, el.y, el.y2, CANVAS_HEIGHT)
       IN  [el EXCEPT !.x = ax[1], !.y = ay[1], !.x2 = ax[2], !.y2 = ay[2]]
  ELSE [el EXCEPT !.x = clamp(x, 0, CANVAS_WIDTH), !.y = clamp(y, 0, CANVAS_HEIGHT)]

\* as handleDragMove, without the test of line 141: every shape is moved
handleDragMove_all(prev, ex, ey) ==
  IF dragId = null THEN prev
  ELSE [i \in 1..Len(prev) |-> dragElement(prev[i], ex - offset.x, ey - offset.y)]

handleDragMove(prev, ex, ey) ==
  IF dragId = null THEN prev
  ELSE LET x == ex - offset.x
           y == ey - offset.y
       IN  [i \in 1..Len(prev) |->
              IF prev[i].id # dragId THEN prev[i] ELSE dragElement(prev[i], x, y)]

(***************************************************************************)
(* handleAppearanceChange, lines 204-207: the collection after the change. *)
(***************************************************************************)
\* as handleAppearanceChange, but the field is set on every shape
handleAppearanceChange_all(prev, field, value) ==
  [i \in 1..Len(prev) |-> [prev[i] EXCEPT ![field] = value]]

handleAppearanceChange(prev, field, value) ==
  [i \in 1..Len(prev) |->
     IF prev[i].selected THEN [prev[i] EXCEPT ![field] = value] ELSE prev[i]]

(***************************************************************************)
(* Persistence, lines 210-219.  The text of the localStorage item is       *)
(* modelled by what JSON.stringify writes: for an array, one object text   *)
(* per element, each the sequence of the <<key, value>> pairs of the       *)
(* properties the element has, in property order.  An item can also hold   *)
(* text that this program did not write.                                   *)
(***************************************************************************)
KeyOrder ==
  <<"id", "type", "x", "y", "x2", "y2", "width", "height",
    "color", "background", "lineStyle", "lineWidth", "selected">>

hasKey(el, k) == k \in DOMAIN el

\* as stringifyObject, but only the properties every shape has are written
stringifyObject_requiredOnly(el) ==
  LET keys == SelectSeq(KeyOrder, LAMBDA k : hasKey(el, k) /\ k \notin {"x2", "y2"})
  IN  [j \in 1..Len(keys) |-> <<keys[j], el[keys[j]]>>]

stringifyObject(el) ==
  LET keys == SelectSeq(KeyOrder, LAMBDA k : hasKey(el, k))
  IN  [j \in 1..Len(keys) |-> <<keys[j], el[keys[j]]>>]

JSON_stringify(els) ==
  [kind |-> "array", items |-> [i \in 1..Len(els) |-> stringifyObject(els[i])]]

parseObject(pairs) ==
  [k \in {pairs[j][1] : j \in 1..Len(pairs)} |->
     LET j == CHOOSE j \in 1..Len(pairs) :
                /\ pairs[j][1] = k
                /\ \A m \in (j + 1)..Len(pairs) : pairs[m][1] # k
     IN  pairs[j][2]]

\* what JSON.parse returns for text that is valid JSON but not an array of
\* shapes (such as {} or 7): a value that is not a shape collection
NotAShapeArray == <<[notAShape |-> TRUE]>>

\* JSON.parse throws a SyntaxError
parseThrows(text) == text.kind = "invalid"

JSON_parse(text) ==
  IF text.kind = "array"
  THEN [i \in 1..Len(text.items) |-> parseObject(text.items[i])]
  ELSE NotAShapeArray

\* localStorage.getItem('drawing') when the item is missing
noItem == [kind |-> "null"]

\* if (data): null and the empty string are falsy
truthy(data) == data.kind \notin {"null", "empty"}

IsShapeArray(els) == \A i \in 1..Len(els) : "id" \in DOMAIN els[i]

handleSave ==
  storage' = JSON_stringify(elements)

handleLoad ==
  LET data == storage IN
  IF ~truthy(data) THEN UNCHANGED elements
  ELSE IF parseThrows(data) THEN UNCHANGED elements
  ELSE elements' = JSON_parse(data)

(***************************************************************************)
(* Routing of the canvas element, lines 304-306.                           *)
(***************************************************************************)
\* onMouseMove={drawing ? handleMouseMove : dragId ? handleDragMove : undefined}
canvasOnMouseMove(prev, ex, ey) ==
  IF drawing THEN handleMouseMove(prev, ex, ey)
  ELSE IF dragId # null THEN handleDragMove(prev, ex, ey)
  ELSE prev

canvasMoveOp ==
  IF drawing THEN "update" ELSE IF dragId # null THEN "dragTo" ELSE "moveIgnored"

Init ==
  /\ elements = <<>>
  /\ currentShape = "rectangle"
  /\ drawing = FALSE
  /\ appearance = defaultAppearance
  /\ dragId = null
  /\ offset = [x |-> 0, y |-> 0]
  /\ storage = noItem
  /\ now = 1
  /\ saved = <<>>
  /\ startedId = null
  /\ lastOp = "init"
  /\ nEvents = 0

(***************************************************************************)
(* Events.                                                                 *)
(***************************************************************************)
\* one more event is dispatched, and it runs the handlers named by op
Dispatch(op) ==
  /\ nEvents < MaxEvents
  /\ nEvents' = nEvents + 1
  /\ lastOp' = op

\* the toolbar's shape Select, line 226
SelectShapeType ==
  /\ \E t \in ShapeTypes \ {currentShape} : currentShape' = t
  /\ Dispatch("setCurrentShape")
  /\ UNCHANGED <<elements, drawing, appearance, dragId, offset, storage, now, saved, startedId>>

\* pointer-down on the canvas background: handleMouseDown
MouseDownCanvas ==
  /\ Len(elements) < MaxShapes
  /\ \E p \in DownPoints : handleMouseDown(TRUE, p[1], p[2])
  /\ startedId' = ToString(now')
  /\ Dispatch("start")
  /\ UNCHANGED <<currentShape, appearance, dragId, offset, storage, saved>>

\* pointer-down on a rendered shape: handleDragStart (lines 126-131), then
\* the event bubbles to the canvas's handleMouseDown
MouseDownShape ==
  /\ \E i \in 1..Len(elements), o \in Offsets :
       LET id == elements[i].id IN
       /\ IF \E j \in 1..Len(elements) : elements[j].id = id
          THEN /\ dragId' = id
               /\ offset' = [x |-> o[1], y |-> o[2]]
          ELSE UNCHANGED <<dragId, offset>>
       /\ handleMouseDown(FALSE, elements[i].x + o[1], elements[i].y + o[2])
  /\ Dispatch("beginDrag")
  /\ UNCHANGED <<currentShape, appearance, storage, saved, startedId>>

\* pointer-move whose target is the canvas background
MouseMoveCanvas ==
  /\ \E p \in MovePoints : elements' = canvasOnMouseMove(elements, p[1], p[2])
  /\ Dispatch(canvasMoveOp)
  /\ UNCHANGED <<currentShape, drawing, appearance, dragId, offset, storage, now, saved, startedId>>

\* pointer-move whose target is a rendered shape: the shape's handleDragMove
\* (line 278), then the canvas's handler
MouseMoveShape ==
  /\ Len(elements) > 0
  /\ \E p \in MovePoints :
       elements' = canvasOnMouseMove(handleDragMove(elements, p[1], p[2]), p[1], p[2])
  /\ Dispatch(IF dragId # null /\ drawing THEN "dragTo+update" ELSE canvasMoveOp)
  /\ UNCHANGED <<currentShape, drawing, appearance, dragId, offset, storage, now, saved, startedId>>

\* pointer-up whose target is the canvas background, line 306:
\* onMouseUp={drawing ? handleMouseUp : dragId ? handleDragEnd : undefined}
MouseUpCanvas ==
  /\ IF drawing THEN drawing' = FALSE /\ UNCHANGED dragId
     ELSE IF dragId # null THEN dragId' = null /\ UNCHANGED drawing
     ELSE UNCHANGED <<drawing, dragId>>
  /\ Dispatch(IF drawing THEN "commit" ELSE IF dragId # null THEN "endDrag" ELSE "upIgnored")
  /\ UNCHANGED <<elements, currentShape, appearance, offset, storage, now, saved, startedId>>

\* pointer-up whose target is a rendered shape: handleDragEnd (line 279),
\* then the canvas's handler
MouseUpShape ==
  /\ Len(elements) > 0
  /\ dragId' = null
  /\ drawing' = FALSE
  /\ Dispatch(IF drawing THEN "endDrag+commit" ELSE "endDrag")
  /\ UNCHANGED <<elements, currentShape, appearance, offset, storage, now, saved, startedId>>

\* click on a rendered shape, line 276
ClickShape ==
  /\ \E i \in 1..Len(elements) : elements' = handleSelect(elements, elements[i].id)
  /\ Dispatch("selectAt")
  /\ UNCHANGED <<currentShape, drawing, appearance, dragId, offset, storage, now, saved, startedId>>

\* a toolbar appearance control, lines 234-253
ChangeAppearance ==
  /\ \E f \in AppearanceFields : \E v \in AppearanceValues[f] :
       /\ appearance' = [appearance EXCEPT ![f] = v]
       /\ elements' = handleAppearanceChange(elements, f, v)
  /\ Dispatch("appearance")
  /\ UNCHANGED <<currentShape, drawing, dragId, offset, storage, now, saved, startedId>>

Save ==
  /\ handleSave
  /\ saved' = elements
  /\ Dispatch("save")
  /\ UNCHANGED <<elements, currentShape, drawing, appearance, dragId, offset, now, startedId>>

Load ==
  /\ handleLoad
  /\ Dispatch("load")
  /\ UNCHANGED <<currentShape, drawing, appearance, dragId, offset, storage, now, saved, startedId>>

Next ==
  \/ SelectShapeType
  \/ MouseDownCanvas
  \/ MouseDownShape
  \/ MouseMoveCanvas
  \/ MouseMoveShape
  \/ MouseUpCanvas
  \/ MouseUpShape
  \/ ClickShape
  \/ ChangeAppearance
  \/ Save
  \/ Load

Spec == Init /\ [][Next]_vars

(***************************************************************************)
(* The same program with a localStorage item that other code of the same   *)
(* origin may write: text that is not JSON, JSON text of something that is *)
(* not an array of shapes, or the empty string.  The program's behaviour   *)
(* on a collection that is not a shape array is not modelled.              *)
(***************************************************************************)
ForeignTexts == {[kind |-> "invalid"], [kind |-> "other"], [kind |-> "empty"]}

ExternalWrite ==
  /\ IsShapeArray(elements)
  /\ \E text \in ForeignTexts \ {storage} : storage' = text
  /\ Dispatch("externalWrite")
  /\ UNCHANGED <<elements, currentShape, drawing, appearance, dragId, offset, now, saved, startedId>>

NextExt ==
  \/ IsShapeArray(elements) /\ Next
  \/ ExternalWrite

SpecExt == Init /\ [][NextExt]_vars

(***************************************************************************)
(* Properties.                                                             *)
(***************************************************************************)
PointsOfMove == {[x |-> p[1], y |-> p[2]] : p \in MovePoints}

\* the footprint of a shape lies in [0, CANVAS_WIDTH] x [0, CANVAS_HEIGHT]
InCanvas(el) ==
  IF el.type = "line"
  THEN /\ 0 <= el.x /\ el.x <= CANVAS_WIDTH
       /\ 0 <= el.y /\ el.y <= CANVAS_HEIGHT
       /\ hasFarEnd(el)
       /\ 0 <= el.x2 /\ el.x2 <= CANVAS_WIDTH
       /\ 0 <= el.y2 /\ el.y2 <= CANVAS_HEIGHT
  ELSE /\ Min(el.x, el.x + el.width) >= 0
       /\ Max(el.x, el.x + el.width) <= CANVAS_WIDTH
       /\ Min(el.y, el.y + el.height) >= 0
       /\ Max(el.y, el.y + el.height) <= CANVAS_HEIGHT

\* C1: after every operation (start at a point of the canvas, update, commit,
\* beginDrag, dragTo, endDrag, with arbitrary pointer-move coordinates) the
\* footprint of every shape lies within [0,800] x [0,600], also when its
\* width or height is negative.
BoundsInvariant ==
  \A i \in 1..Len(elements) : InCanvas(elements[i])

\* a shape of negative extent was dragged against the top-left corner and was
\* stopped with its footprint on the canvas edge
BoundsWitness ==
  /\ lastOp = "dragTo"
  /\ \E i \in 1..Len(elements) :
       /\ elements[i].id = dragId
       /\ elements[i].type # "line"
       /\ elements[i].width < 0
       /\ elements[i].x + elements[i].width = 0
       /\ elements[i].y + elements[i].height = 0

SameExtents(before, after) ==
  /\ Len(after) = Len(before)
  /\ \A i \in 1..Len(before) :
       /\ after[i].width = before[i].width
       /\ after[i].height = before[i].height

\* C2: a drag preserves size: every dragTo, for any pointer coordinates, and
\* endDrag leave the width and the height of every shape as they were.
SizePreservedUnderDrag ==
  /\ [](\A p \in PointsOfMove :
          SameExtents(elements, handleDragMove(elements, p.x, p.y)))
  /\ [][lastOp' \in {"dragTo", "endDrag"} => SameExtents(elements, elements')]_vars

\* a rectangle of non-zero extent was moved by a dragTo
SizePreservedWitness ==
  /\ lastOp = "dragTo"
  /\ \E i \in 1..Len(elements) :
       /\ elements[i].id = dragId
       /\ elements[i].width = 500 /\ elements[i].height = 300
       /\ elements[i].x = 0 /\ elements[i].y = 0

\* the difference of a line's end points
Difference(el) == <<el.x2 - el.x, el.y2 - el.y>>

\* C3: a drag never alters a line's length: for a line that is the drag
\* target, (x2 - x, y2 - y) after any dragTo equals the difference before it.
LineDifferencePreserved ==
  (dragId # null /\ ~drawing /\ lastOp \in {"beginDrag", "dragTo"}) =>
    \A p \in PointsOfMove :
      LET after == handleDragMove(elements, p.x, p.y) IN
      \A i \in 1..Len(elements) :
        (elements[i].id = dragId /\ elements[i].type = "line" /\ hasFarEnd(elements[i]))
          => Difference(after[i]) = Difference(elements[i])

Selected == {i \in 1..Len(elements) : elements[i].selected}

\* C4: selection is exclusive: in every reachable state at most one shape
\* has selected = true, and right after selectAt exactly one shape is
\* selected.
SelectionExclusive ==
  /\ Cardinality(Selected) <= 1
  /\ lastOp = "selectAt" => Cardinality(Selected) = 1

\* C5: no reachable state has a Draw Session and a Drag Session active at
\* the same time: beginDrag is rejected while drawing, start is rejected
\* while a drag is active.
SingleSession ==
  ~(drawing /\ dragId # null)

\* C6: load after save yields the collection as it was serialized: same
\* length, same order, every attribute of every shape equal, whatever was
\* edited in between.
RoundTrip ==
  (lastOp = "load" /\ truthy(storage)) => elements = saved

\* a collection with a selected shape of negative extent was saved, edited
\* and restored by load
RoundTripWitness ==
  /\ lastOp = "load"
  /\ truthy(storage)
  /\ Len(elements) > 0
  /\ elements[1].selected
  /\ elements[1].width < 0
  /\ elements[1].height < 0

\* C7: a pointer-move handled when its session is not active is a no-op:
\* dragTo with no drag active and update with no Draw Session active return
\* the collection as it is, and a pointer-move with neither session active
\* changes nothing of the program's state.
InvalidOrderingIsNoop ==
  /\ [](\A p \in PointsOfMove :
          /\ dragId = null => handleDragMove(elements, p.x, p.y) = elements
          /\ ~drawing => handleMouseMove(elements, p.x, p.y) = elements)
  /\ [][lastOp' = "moveIgnored" =>
          UNCHANGED <<elements, appearance, drawing, dragId, offset, currentShape, storage>>]_vars

\* a pointer-move arrived over a non-empty collection with no session active
InvalidOrderingWitness ==
  /\ lastOp = "moveIgnored"
  /\ Len(elements) > 0
  /\ elements[1].width # 0
  /\ ~drawing
  /\ dragId = null

\* the item holds a serialized shape collection
WellFormedItem(text) == text.kind = "array"

\* C8: load leaves the collection unchanged whenever the item is absent or
\* its content cannot be parsed into a shape collection.
LoadKeepsCollectionOnMalformedItem ==
  [][(lastOp' = "load" /\ ~WellFormedItem(storage)) => elements' = elements]_vars

clampedPoint(p) == [x |-> clamp(p.x, 0, CANVAS_WIDTH), y |-> clamp(p.y, 0, CANVAS_HEIGHT)]

\* C9: in an Active Draw Session whose in-progress shape has its anchor
\* inside the canvas, update(rawPoint) with c the clamped point gives: for a
\* line, far end point c and start end point unchanged; for a rectangle and
\* a circle alike, anchor unchanged and signed (width, height) = c - anchor.
DrawUpdateResult ==
  (drawing /\ Len(elements) > 0) =>
    LET last == elements[Len(elements)] IN
    (0 <= last.x /\ last.x <= CANVAS_WIDTH /\ 0 <= last.y /\ last.y <= CANVAS_HEIGHT) =>
      \A p \in PointsOfMove :
        LET c == clampedPoint(p)
            r == handleMouseMove(elements, p.x, p.y)[Len(elements)]
        IN  /\ r.x = last.x /\ r.y = last.y
            /\ IF last.type = "line"
               THEN r.x2 = c.x /\ r.y2 = c.y
               ELSE r.width = c.x - last.x /\ r.height = c.y - last.y

\* a circle anchored at (300,300) was updated to (260,260): extent (-40,-40)
DrawUpdateWitness ==
  /\ lastOp = "update"
  /\ drawing
  /\ Len(elements) > 0
  /\ LET last == elements[Len(elements)] IN
       /\ last.type = "circle"
       /\ last.x = 300 /\ last.y = 300
       /\ last.width = -40 /\ last.height = -40

\* the origin C10 states for one axis
statedOrigin(c, e, D) ==
  IF e >= 0 THEN Max(0, Min(D - e, c))
  ELSE IF Max(0, Min(D, c)) + e < 0 THEN -e ELSE Max(0, Min(D, c))

footprintInside(c, e, D) ==
  Min(c, c + e) >= 0 /\ Max(c, c + e) <= D

\* C10: for a rectangle or circle that is the drag target, with candidate
\* origin c = raw pointer - stored offset, dragTo sets per axis: for extent
\* e >= 0 the origin clamp(c, 0, D - e); for e < 0 the origin clamp(c, 0, D)
\* and then -e if origin + e < 0.  The origin is c itself whenever c keeps
\* the footprint in bounds.
DragClamp ==
  dragId # null =>
    \A p \in PointsOfMove :
      LET after == handleDragMove(elements, p.x, p.y)
          cx == p.x - offset.x
          cy == p.y - offset.y
      IN  \A i \in 1..Len(elements) :
            (elements[i].id = dragId /\ elements[i].type # "line") =>
              LET el == elements[i] IN
              /\ after[i].x = statedOrigin(cx, el.width, CANVAS_WIDTH)
              /\ after[i].y = statedOrigin(cy, el.height, CANVAS_HEIGHT)
              /\ footprintInside(cx, el.width, CANVAS_WIDTH) => after[i].x = cx
              /\ footprintInside(cy, el.height, CANVAS_HEIGHT) => after[i].y = cy
              /\ after[i].width = el.width /\ after[i].height = el.height

\* a rectangle of extent (-40,-40) was dragged toward the top-left corner
\* and stopped at origin (40,40); the pointer was pressed 5 right of and 3
\* below the shape's origin
DragClampWitness ==
  /\ lastOp = "dragTo"
  /\ offset = [x |-> 5, y |-> 3]
  /\ \E i \in 1..Len(elements) :
       /\ elements[i].id = dragId
       /\ elements[i].type = "rectangle"
       /\ elements[i].width = -40 /\ elements[i].height = -40
       /\ elements[i].x = 40 /\ elements[i].y = 40

\* C11: a pointer-down whose target is an existing shape appends no shape
\* and leaves the Draw Session state as it is; the Draw Session becomes
\* Active, and the collection grows by a pointer event, only on a
\* pointer-down whose target is the canvas background.
ShapeDownStartsNoDraw ==
  /\ [][lastOp' = "beginDrag" => (elements' = elements /\ drawing' = drawing)]_vars
  /\ [][(drawing' /\ ~drawing) => lastOp' = "start"]_vars
  /\ [][(Len(elements') > Len(elements) /\ lastOp' # "load") => lastOp' = "start"]_vars

\* a pointer-down on the only shape, with no Draw Session active, began a
\* drag and started nothing
ShapeDownWitness ==
  /\ lastOp = "beginDrag"
  /\ ~drawing
  /\ dragId # null
  /\ Len(elements) = 1

AppearanceKeys == DOMAIN defaultAppearance

\* the appearance change (f, v) took elements to elements' and appearance to
\* appearance'
AppearanceChanged(f, v) ==
  /\ appearance' = [k \in AppearanceKeys |-> IF k = f THEN v ELSE appearance[k]]
  /\ Len(elements') = Len(elements)
  /\ \A i \in 1..Len(elements) :
       IF elements[i].selected
       THEN /\ DOMAIN elements'[i] = DOMAIN elements[i]
            /\ elements'[i][f] = v
            /\ \A k \in DOMAIN elements[i] \ {f} : elements'[i][k] = elements[i][k]
       ELSE elements'[i] = elements[i]

\* C12: an appearance change (field, value) sets that field of the default
\* appearance and of every selected shape, in one step; every unselected
\* shape, every other field of a selected shape and the order of the
\* collection are unchanged; a shape started afterwards carries the default
\* appearance of that moment.
AppearanceChangeEffect ==
  /\ [][lastOp' = "appearance" =>
          \E f \in AppearanceFields : \E v \in AppearanceValues[f] : AppearanceChanged(f, v)]_vars
  /\ [](lastOp = "start" =>
          \A k \in AppearanceKeys : elements[Len(elements)][k] = appearance[k])

\* the color control was set to red with the second of two shapes selected:
\* the selected shape and the default are red, the other shape is not
AppearanceChangeWitness ==
  /\ lastOp = "appearance"
  /\ appearance.color = "#ff0000"
  /\ Len(elements) = 2
  /\ ~elements[1].selected /\ elements[1].color = "#000000"
  /\ elements[2].selected /\ elements[2].color = "#ff0000"

\* C13: start appends exactly one shape as the last element: of the chosen
\* type, anchored at the pointer, of zero size (a line with x2 = x, y2 = y),
\* not selected, with the default appearance of that moment; the shapes that
\* existed are unchanged and keep their positions; the Draw Session becomes
\* Active.
StartAppendsOne ==
  [][lastOp' = "start" =>
       /\ Len(elements') = Len(elements) + 1
       /\ \A i \in 1..Len(elements) : elements'[i] = elements[i]
       /\ drawing'
       /\ LET new == elements'[Len(elements')] IN
            /\ new.type = currentShape
            /\ <<new.x, new.y>> \in DownPoints
            /\ new.width = 0 /\ new.height = 0
            /\ IF new.type = "line"
               THEN hasFarEnd(new) /\ new.x2 = new.x /\ new.y2 = new.y
               ELSE ~hasKey(new, "x2") /\ ~hasKey(new, "y2")
            /\ new.selected = FALSE
            /\ \A k \in AppearanceKeys : new[k] = appearance[k]]_vars

\* a line was started on top of a rectangle that had been sized and that
\* kept its place
StartAppendsOneWitness ==
  /\ lastOp = "start"
  /\ drawing
  /\ Len(elements) = 2
  /\ elements[1].type = "rectangle" /\ elements[1].width # 0
  /\ elements[2].type = "line"
  /\ elements[2].x2 = 300 /\ elements[2].y2 = 300
  /\ ~elements[2].selected

\* the stacking order: the ids of the shapes, bottom to top
Ids(els) == [i \in 1..Len(els) |-> els[i].id]

\* C14: the stacking order is stable and no shape is destroyed: every event
\* but start and load (selectAt, beginDrag, dragTo, endDrag, update, commit,
\* appearance change, save) leaves the sequence of ids as it is, and start
\* extends it by exactly one id at the end.
StackingOrderStable ==
  /\ [][lastOp' \notin {"start", "load"} => Ids(elements') = Ids(elements)]_vars
  /\ [][lastOp' = "start" =>
          /\ Len(elements') = Len(elements) + 1
          /\ SubSeq(Ids(elements'), 1, Len(elements)) = Ids(elements)]_vars

\* the lower of two shapes was clicked and stayed below the other
StackingOrderWitness ==
  /\ lastOp = "selectAt"
  /\ Ids(elements) = <<"1", "2">>
  /\ elements[1].selected
  /\ ~elements[2].selected

PointerUpOps == {"commit", "endDrag", "endDrag+commit", "upIgnored"}

\* C15: after any pointer-up event, on the canvas background or on a shape,
\* no Draw Session is Active and no Drag Session is active.
PointerUpEndsSessions ==
  lastOp \in PointerUpOps => (~drawing /\ dragId = null)

Types(els) == [i \in 1..Len(els) |-> els[i].type]

\* C16: shape identifiers are unique and stable: in every reachable state
\* the shapes have pairwise distinct ids, and no event other than load
\* changes the id or the type of an existing shape.
IdsUniqueAndStable ==
  /\ [](\A i, j \in 1..Len(elements) : i # j => elements[i].id # elements[j].id)
  /\ [][lastOp' # "load" =>
          /\ Len(elements') >= Len(elements)
          /\ SubSeq(Ids(elements'), 1, Len(elements)) = Ids(elements)
          /\ SubSeq(Types(elements'), 1, Len(elements)) = Types(elements)]_vars

\* the properties a Draw Session update may write
DrawnKeys == {"width", "height", "x2", "y2"}

\* C17: a Draw Session update modifies only the shape appended by the most
\* recent start, whatever happened since (a lost pointer-up, a second start,
\* a load): every other shape is unchanged, and of that shape only the
\* extent or the far end point changes.
UpdateTouchesOnlyStarted ==
  [][lastOp' = "update" =>
       /\ Len(elements') = Len(elements)
       /\ \A i \in 1..Len(elements) :
            IF elements[i].id # startedId
            THEN elements'[i] = elements[i]
            ELSE \A k \in DOMAIN elements[i] \ DrawnKeys :
                   elements'[i][k] = elements[i][k]]_vars

\* C18: dragTo is idempotent: while a drag is active, for every pointer
\* point, applying dragTo twice with the same point yields the collection
\* that applying it once yields (a pointer-move over a shape runs the handler
\* on the shape and again on the canvas).
DragToIdempotent ==
  dragId # null =>
    \A p \in PointsOfMove :
      LET once == handleDragMove(elements, p.x, p.y)
      IN  handleDragMove(once, p.x, p.y) = once

\* a 500 x 300 rectangle, pressed 5 right of and 3 below its origin, was
\* dragged to the pointer at (260,260)
DragToIdempotentWitness ==
  /\ lastOp = "dragTo"
  /\ offset = [x |-> 5, y |-> 3]
  /\ \E i \in 1..Len(elements) :
       /\ elements[i].id = dragId
       /\ elements[i].width = 500 /\ elements[i].height = 300
       /\ elements[i].x = 255 /\ elements[i].y = 257

\* the properties a drag may write
DraggedKeys == {"x", "y", "x2", "y2"}

\* C19: dragTo changes only the drag target: for every pointer point, every
\* shape whose id differs from the drag target is unchanged, of the target
\* only the position changes (id, type, selected flag, appearance and extent
\* stay), and when no shape carries the drag target's id nothing changes.
DragToTouchesOnlyTarget ==
  \A p \in PointsOfMove :
    LET after == handleDragMove(elements, p.x, p.y) IN
    /\ Len(after) = Len(elements)
    /\ \A i \in 1..Len(elements) :
         IF elements[i].id # dragId
         THEN after[i] = elements[i]
         ELSE /\ DOMAIN after[i] = DOMAIN elements[i]
              /\ \A k \in DOMAIN elements[i] \ DraggedKeys : after[i][k] = elements[i][k]
    /\ (\A i \in 1..Len(elements) : elements[i].id # dragId) => after = elements

\* the upper of two shapes was dragged into the top-left corner and the
\* lower one stayed where it was drawn
DragToTargetWitness ==
  /\ lastOp = "dragTo"
  /\ Len(elements) = 2
  /\ elements[1].id # dragId
  /\ elements[1].x = 300 /\ elements[1].y = 300
  /\ elements[2].id = dragId
  /\ elements[2].x = 0 /\ elements[2].y = 0

====
